---- MODULE Spec2Model ----
(***************************************************************************)
(* A model of package cache (src/cache.go): a map of pending mutations     *)
(* (qu, guarded by quMu) in front of a b-tree index (tr, guarded by trMu), *)
(* merged by one background goroutine (queueWorker) that is woken through  *)
(* the buffered channel quCh and stopped through the unbuffered channel    *)
(* done.                                                                   *)
(*                                                                         *)
(* Granularity.  A step is one critical section, or the part of one up to  *)
(* the next lock the goroutine has to wait for.  A goroutine that waits    *)
(* for a lock while it holds another one is a state of its own (gos_tr,    *)
(* gas_tr, flush_qu, lockTr), so every hold-and-wait of the source is a    *)
(* state of the model.  A read lock is only ever taken and released        *)
(* within one step, so quMu and trMu record the exclusive holder only.     *)
(* sync.RWMutex also keeps new readers out while a writer waits; that      *)
(* removes interleavings and adds none, so the model, which lets the       *)
(* reader in, covers every behaviour of the source.                        *)
(*                                                                         *)
(* last, the field ver of im, and the fields exp, clean, late of cur, ret   *)
(* are history variables: no action reads them to decide what the program  *)
(* does.                                                                   *)
(***************************************************************************)
EXTENDS Integers, FiniteSets, Sequences, TLC

\* ------------------------------------------------------------- bounds
\* Number of caller goroutines.
NProcs == 2
\* Number of calls the callers make in one behaviour, all callers together.
MaxOps == 3
\* Capacity of quCh in the model (1<<10 in the source, cache.go:40).
QuChCap == 1
\* Width in bits of the model's int and int64 (64 in the source).
IntBits == 5

Procs == 1..NProcs
Keys == {"a", "b"}

\* Holders of a mutex: a caller (1..NProcs), the worker, or nobody.
Worker == 0
Free == -1

\* --------------------------------------------------------- the values
\* An interface{} value: its dynamic type and its payload.  nil is NIL.
NIL == [kind |-> "nil", n |-> 0]
IntV(n) == [kind |-> "int", n |-> n]
Int64V(n) == [kind |-> "int64", n |-> n]
Int32V(n) == [kind |-> "int32", n |-> n]
Text == [kind |-> "string", n |-> 0]

MaxInt == 2 ^ (IntBits - 1) - 1
MinInt == -(2 ^ (IntBits - 1))

\* Two's complement wrap-around of Go's + and - on int and int64.
Wrap(n) == ((n - MinInt) % (2 ^ IntBits)) + MinInt

\* Inc's closure with a default case that counts from zero.
IncF_ZeroDefault(f, v) ==
  IF v.kind \in {"int", "int64"} THEN [kind |-> v.kind, n |-> Wrap(v.n + f.x)] ELSE IntV(f.x)

\* The closure Inc passes to GetAndSet: the type switch on int and int64.
IncF(f, v) ==
  IF v.kind \in {"int", "int64"} THEN [kind |-> v.kind, n |-> Wrap(v.n + f.x)] ELSE v

\* Dec's closure with Inc's sign.
DecF_Adds(f, v) ==
  IF v.kind \in {"int", "int64"} THEN [kind |-> v.kind, n |-> Wrap(v.n + f.x)] ELSE v

\* The closure Dec passes to GetAndSet.
DecF(f, v) ==
  IF v.kind \in {"int", "int64"} THEN [kind |-> v.kind, n |-> Wrap(v.n - f.x)] ELSE v

\* f(v) for the transforms the callers pass to GetAndSet: Inc's closure,
\* Dec's closure, or a caller's own function, here one that ignores its
\* argument and returns the int f.x.
Apply(f, v) ==
  CASE f.t = "inc" -> IncF(f, v)
    [] f.t = "dec" -> DecF(f, v)
    [] OTHER -> IntV(f.x)

NoF == [t |-> "none", x |-> 0]

\* ------------------------------------------------------------- inputs
SetVals == {IntV(10), Text}
IncDeltas == {5}
DecDeltas == {3}
ConstF == [t |-> "const", x |-> 7]
\* The index at the start: empty (NewCacheDegree), or what earlier Sets
\* and a full drain have left in it.
EmptyMap == [k \in {} |-> NIL]
InitTrees ==
  {EmptyMap, [k \in Keys |-> IF k = "a" THEN Int32V(1) ELSE Int64V(MaxInt - 4)]}

\* --------------------------------------------------------------- maps
\* map[string]item and the b-tree, both as functions on the keys they hold.
Put(m, k, v) == [x \in DOMAIN m \cup {k} |-> IF x = k THEN v ELSE m[x]]
Remove(m, k) == [x \in DOMAIN m \ {k} |-> m[x]]
\* tr.Get(item{Key: key}) followed by r.(item).Val; nil when r == nil.
TreeGet(t, k) == IF k \in DOMAIN t THEN t[k] ELSE NIL

VARIABLES
  tr,    \* ce.tr: the index
  trMu,  \* exclusive holder of ce.trMu
  qu,    \* ce.qu: the pending mutations
  quMu,  \* exclusive holder of ce.quMu
  quCh,  \* number of signals buffered in ce.quCh
  wpc,   \* where queueWorker is
  im,    \* queueWorker's popped item
  pc,    \* where each caller is
  cur,   \* each caller's call in progress
  ret,   \* the call that returned last
  ops,   \* calls made so far
  last   \* per key: the value last stored (val), the operation that stored it (by),
         \* the value before that (prev), the number of writes so far (n), and
         \* the number of the write the index reflects (ap)

vars == <<tr, trMu, qu, quMu, quCh, wpc, im, pc, cur, ret, ops, last>>

NoItem == [key |-> "", val |-> NIL, ver |-> 0]
NoWrite == [val |-> NIL, by |-> "none", prev |-> NIL, n |-> 0, ap |-> 0]
Blank ==
  [op |-> "none", key |-> "", arg |-> NIL, f |-> NoF, val |-> NIL, found |-> FALSE,
   src |-> "none", stored |-> FALSE, exp |-> NoWrite, clean |-> FALSE, late |-> FALSE]

\* A call of op on key k as it starts; late: the worker has returned.
Call(op, k) == [Blank EXCEPT !.op = op, !.key = k, !.late = (wpc = "terminated")]

Init ==
  /\ tr \in InitTrees
  /\ trMu = Free
  /\ qu = EmptyMap
  /\ quMu = Free
  /\ quCh = 0
  /\ wpc = "select"
  /\ im = NoItem
  /\ pc = [p \in Procs |-> "idle"]
  /\ cur = [p \in Procs |-> Blank]
  /\ ret = Blank
  /\ ops = 0
  /\ last = [k \in Keys |-> IF k \in DOMAIN tr
                             THEN [val |-> tr[k], by |-> "init", prev |-> NIL, n |-> 1, ap |-> 1]
                             ELSE NoWrite]

\* ------------------------------------------------------ history helpers
\* The history l of a key after the write of v by the operation by.
Write(l, v, by) == [val |-> v, by |-> by, prev |-> l.val, n |-> l.n + 1, ap |-> l.ap]

FlushInFlight == \E q \in Procs : pc[q] = "flush_qu"

\* The calls in progress after a store to the keys ks (after a Flush step:
\* all keys): a Get of one of them that has read the buffer and not yet the
\* index overlaps a write.
Touch(c, ks) ==
  [q \in Procs |-> IF c[q].op = "Get" /\ c[q].key \in ks THEN [c[q] EXCEPT !.clean = FALSE] ELSE c[q]]

\* A select that always takes its default case.
Signal_Never == quCh

\* select { case ce.quCh <- struct{}{}: default: }
Signal == IF quCh < QuChCap THEN quCh + 1 ELSE quCh

CanCall(p) == pc[p] = "idle" /\ ops < MaxOps

\* ------------------------------------------------------------ callers
\* Get, lines 99-105: the buffer under quMu.RLock; a hit returns its value.
Get(p, k) ==
  /\ CanCall(p)
  /\ quMu = Free
  /\ ops' = ops + 1
  /\ IF k \in DOMAIN qu
       THEN /\ ret' = [Call("Get", k) EXCEPT !.val = qu[k], !.src = "qu",
                                             !.exp = last[k], !.clean = ~FlushInFlight]
            /\ UNCHANGED <<pc, cur>>
       ELSE /\ pc' = [pc EXCEPT ![p] = "get_tr"]
            /\ cur' = [cur EXCEPT ![p] = [Call("Get", k) EXCEPT !.exp = last[k],
                                                                !.clean = ~FlushInFlight]]
            /\ UNCHANGED ret
  /\ UNCHANGED <<tr, trMu, qu, quMu, quCh, wpc, im, last>>

\* GetTr without trMu.RLock: it reads the index while a writer holds it.
GetTr_NoRLock(p) ==
  /\ pc[p] = "get_tr"
  /\ ret' = [cur[p] EXCEPT !.val = TreeGet(tr, cur[p].key), !.src = "tr"]
  /\ pc' = [pc EXCEPT ![p] = "idle"]
  /\ cur' = [cur EXCEPT ![p] = Blank]
  /\ UNCHANGED <<tr, trMu, qu, quMu, quCh, wpc, im, ops, last>>

\* Get, lines 106-114: the index under trMu.RLock.
GetTr(p) ==
  /\ pc[p] = "get_tr"
  /\ trMu = Free
  /\ ret' = [cur[p] EXCEPT !.val = TreeGet(tr, cur[p].key), !.src = "tr"]
  /\ pc' = [pc EXCEPT ![p] = "idle"]
  /\ cur' = [cur EXCEPT ![p] = Blank]
  /\ UNCHANGED <<tr, trMu, qu, quMu, quCh, wpc, im, ops, last>>

\* Set, lines 119-121: the store under quMu.Lock.
Set(p, k, v) ==
  /\ CanCall(p)
  /\ quMu = Free
  /\ ops' = ops + 1
  /\ qu' = Put(qu, k, v)
  /\ last' = [last EXCEPT ![k] = Write(last[k], v, IF v = NIL THEN "Del" ELSE "Set")]
  /\ pc' = [pc EXCEPT ![p] = "set_sig"]
  /\ cur' = [Touch(cur, {k}) EXCEPT ![p] = [Call("Set", k) EXCEPT !.arg = v, !.stored = TRUE]]
  /\ UNCHANGED <<tr, trMu, quMu, quCh, wpc, im, ret>>

\* Del: ce.Set(key, nil).
Del(p, k) == Set(p, k, NIL)

\* Set, lines 122-125: the non-blocking signal, then the return.
SetSignal(p) ==
  /\ pc[p] = "set_sig"
  /\ quCh' = Signal
  /\ ret' = cur[p]
  /\ pc' = [pc EXCEPT ![p] = "idle"]
  /\ cur' = [cur EXCEPT ![p] = Blank]
  /\ UNCHANGED <<tr, trMu, qu, quMu, wpc, im, ops, last>>

\* GetOrSet, lines 136-142: quMu.Lock; a hit in the buffer returns it with
\* found = true, whatever its value.  A miss keeps quMu and goes for trMu.
GetOrSet(p, k, v) ==
  /\ CanCall(p)
  /\ quMu = Free
  /\ ops' = ops + 1
  /\ IF k \in DOMAIN qu
       THEN /\ ret' = [Call("GetOrSet", k) EXCEPT !.arg = v, !.val = qu[k], !.found = TRUE,
                                                  !.src = "qu", !.exp = last[k]]
            /\ UNCHANGED <<pc, cur, quMu>>
       ELSE /\ quMu' = p
            /\ pc' = [pc EXCEPT ![p] = "gos_tr"]
            /\ cur' = [cur EXCEPT ![p] = [Call("GetOrSet", k) EXCEPT !.arg = v]]
            /\ UNCHANGED ret
  /\ UNCHANGED <<tr, trMu, qu, quCh, wpc, im, last>>

\* GetOrSetTr without trMu.RLock.
GetOrSetTr_NoRLock(p) ==
  /\ pc[p] = "gos_tr"
  /\ quMu' = Free
  /\ LET k == cur[p].key IN
       IF k \notin DOMAIN tr
         THEN /\ qu' = Put(qu, k, cur[p].arg)
              /\ last' = [last EXCEPT ![k] = Write(last[k], cur[p].arg, "GetOrSet")]
              /\ pc' = [pc EXCEPT ![p] = "gos_sig"]
              /\ cur' = [Touch(cur, {k}) EXCEPT ![p] =
                           [cur[p] EXCEPT !.val = cur[p].arg, !.found = FALSE, !.src = "tr",
                                          !.stored = TRUE, !.exp = last[k]]]
              /\ UNCHANGED ret
         ELSE /\ ret' = [cur[p] EXCEPT !.val = tr[k], !.found = TRUE, !.src = "tr",
                                       !.exp = last[k]]
              /\ pc' = [pc EXCEPT ![p] = "idle"]
              /\ cur' = [cur EXCEPT ![p] = Blank]
              /\ UNCHANGED <<qu, last>>
  /\ UNCHANGED <<tr, trMu, quCh, wpc, im, ops>>

\* GetOrSetTr that returns without quMu.Unlock.
GetOrSetTr_NoUnlock(p) ==
  /\ pc[p] = "gos_tr"
  /\ trMu = Free
  /\ LET k == cur[p].key IN
       IF k \notin DOMAIN tr
         THEN /\ qu' = Put(qu, k, cur[p].arg)
              /\ last' = [last EXCEPT ![k] = Write(last[k], cur[p].arg, "GetOrSet")]
              /\ pc' = [pc EXCEPT ![p] = "gos_sig"]
              /\ cur' = [Touch(cur, {k}) EXCEPT ![p] =
                           [cur[p] EXCEPT !.val = cur[p].arg, !.found = FALSE, !.src = "tr",
                                          !.stored = TRUE, !.exp = last[k]]]
              /\ UNCHANGED ret
         ELSE /\ ret' = [cur[p] EXCEPT !.val = tr[k], !.found = TRUE, !.src = "tr",
                                       !.exp = last[k]]
              /\ pc' = [pc EXCEPT ![p] = "idle"]
              /\ cur' = [cur EXCEPT ![p] = Blank]
              /\ UNCHANGED <<qu, last>>
  /\ UNCHANGED <<tr, trMu, quMu, quCh, wpc, im, ops>>

\* GetOrSet, lines 143-148 and 157-160: trMu.RLock with quMu held; a miss
\* in the index stores newVal, a hit returns the index's value.
GetOrSetTr(p) ==
  /\ pc[p] = "gos_tr"
  /\ trMu = Free
  /\ quMu' = Free
  /\ LET k == cur[p].key IN
       IF k \notin DOMAIN tr
         THEN /\ qu' = Put(qu, k, cur[p].arg)
              /\ last' = [last EXCEPT ![k] = Write(last[k], cur[p].arg, "GetOrSet")]
              /\ pc' = [pc EXCEPT ![p] = "gos_sig"]
              /\ cur' = [Touch(cur, {k}) EXCEPT ![p] =
                           [cur[p] EXCEPT !.val = cur[p].arg, !.found = FALSE, !.src = "tr",
                                          !.stored = TRUE, !.exp = last[k]]]
              /\ UNCHANGED ret
         ELSE /\ ret' = [cur[p] EXCEPT !.val = tr[k], !.found = TRUE, !.src = "tr",
                                       !.exp = last[k]]
              /\ pc' = [pc EXCEPT ![p] = "idle"]
              /\ cur' = [cur EXCEPT ![p] = Blank]
              /\ UNCHANGED <<qu, last>>
  /\ UNCHANGED <<tr, trMu, quCh, wpc, im, ops>>

\* GetOrSet, lines 149-155: the signal, then return (newVal, false).
GetOrSetSignal(p) ==
  /\ pc[p] = "gos_sig"
  /\ quCh' = Signal
  /\ ret' = cur[p]
  /\ pc' = [pc EXCEPT ![p] = "idle"]
  /\ cur' = [cur EXCEPT ![p] = Blank]
  /\ UNCHANGED <<tr, trMu, qu, quMu, wpc, im, ops, last>>

\* GetAndSet, lines 166-170 and 177: quMu.Lock; a hit in the buffer is
\* replaced by f of it, whatever its value.  A miss keeps quMu and goes for
\* trMu.
GetAndSet(p, k, f) ==
  /\ CanCall(p)
  /\ quMu = Free
  /\ ops' = ops + 1
  /\ IF k \in DOMAIN qu
       THEN /\ qu' = Put(qu, k, Apply(f, qu[k]))
            /\ last' = [last EXCEPT ![k] = Write(last[k], Apply(f, qu[k]), "GetAndSet")]
            /\ pc' = [pc EXCEPT ![p] = "gas_sig"]
            /\ cur' = [Touch(cur, {k}) EXCEPT ![p] =
                         [Call("GetAndSet", k) EXCEPT !.f = f, !.arg = qu[k],
                                                      !.val = Apply(f, qu[k]), !.found = TRUE,
                                                      !.src = "qu", !.stored = TRUE,
                                                      !.exp = last[k]]]
            /\ UNCHANGED quMu
       ELSE /\ quMu' = p
            /\ pc' = [pc EXCEPT ![p] = "gas_tr"]
            /\ cur' = [cur EXCEPT ![p] = [Call("GetAndSet", k) EXCEPT !.f = f]]
            /\ UNCHANGED <<qu, last>>
  /\ UNCHANGED <<tr, trMu, quCh, wpc, im, ret>>

\* GetAndSetTr without trMu.RLock.
GetAndSetTr_NoRLock(p) ==
  /\ pc[p] = "gas_tr"
  /\ quMu' = Free
  /\ LET k == cur[p].key
         f == cur[p].f IN
       IF k \notin DOMAIN tr
         THEN /\ ret' = [cur[p] EXCEPT !.src = "tr", !.exp = last[k]]
              /\ pc' = [pc EXCEPT ![p] = "idle"]
              /\ cur' = [cur EXCEPT ![p] = Blank]
              /\ UNCHANGED <<qu, last>>
         ELSE /\ qu' = Put(qu, k, Apply(f, tr[k]))
              /\ last' = [last EXCEPT ![k] = Write(last[k], Apply(f, tr[k]), "GetAndSet")]
              /\ pc' = [pc EXCEPT ![p] = "gas_sig"]
              /\ cur' = [Touch(cur, {k}) EXCEPT ![p] =
                           [cur[p] EXCEPT !.arg = tr[k], !.val = Apply(f, tr[k]),
                                          !.found = TRUE, !.src = "tr", !.stored = TRUE,
                                          !.exp = last[k]]]
              /\ UNCHANGED ret
  /\ UNCHANGED <<tr, trMu, quCh, wpc, im, ops>>

\* GetAndSetTr that records nothing when f returns the value it was given.
GetAndSetTr_SkipSame(p) ==
  /\ pc[p] = "gas_tr"
  /\ trMu = Free
  /\ quMu' = Free
  /\ LET k == cur[p].key
         f == cur[p].f IN
       IF k \notin DOMAIN tr \/ Apply(f, TreeGet(tr, k)) = TreeGet(tr, k)
         THEN /\ ret' = [cur[p] EXCEPT !.val = TreeGet(tr, k), !.src = "tr", !.exp = last[k]]
              /\ pc' = [pc EXCEPT ![p] = "idle"]
              /\ cur' = [cur EXCEPT ![p] = Blank]
              /\ UNCHANGED <<qu, last>>
         ELSE /\ qu' = Put(qu, k, Apply(f, tr[k]))
              /\ last' = [last EXCEPT ![k] = Write(last[k], Apply(f, tr[k]), "GetAndSet")]
              /\ pc' = [pc EXCEPT ![p] = "gas_sig"]
              /\ cur' = [Touch(cur, {k}) EXCEPT ![p] =
                           [cur[p] EXCEPT !.arg = tr[k], !.val = Apply(f, tr[k]),
                                          !.found = TRUE, !.src = "tr", !.stored = TRUE,
                                          !.exp = last[k]]]
              /\ UNCHANGED ret
  /\ UNCHANGED <<tr, trMu, quCh, wpc, im, ops>>

\* GetAndSet, lines 177-187: trMu.RLock with quMu held; a miss in the index
\* returns nil and stores nothing, a hit stores f of the index's value.
GetAndSetTr(p) ==
  /\ pc[p] = "gas_tr"
  /\ trMu = Free
  /\ quMu' = Free
  /\ LET k == cur[p].key
         f == cur[p].f IN
       IF k \notin DOMAIN tr
         THEN /\ ret' = [cur[p] EXCEPT !.src = "tr", !.exp = last[k]]
              /\ pc' = [pc EXCEPT ![p] = "idle"]
              /\ cur' = [cur EXCEPT ![p] = Blank]
              /\ UNCHANGED <<qu, last>>
         ELSE /\ qu' = Put(qu, k, Apply(f, tr[k]))
              /\ last' = [last EXCEPT ![k] = Write(last[k], Apply(f, tr[k]), "GetAndSet")]
              /\ pc' = [pc EXCEPT ![p] = "gas_sig"]
              /\ cur' = [Touch(cur, {k}) EXCEPT ![p] =
                           [cur[p] EXCEPT !.arg = tr[k], !.val = Apply(f, tr[k]),
                                          !.found = TRUE, !.src = "tr", !.stored = TRUE,
                                          !.exp = last[k]]]
              /\ UNCHANGED ret
  /\ UNCHANGED <<tr, trMu, quCh, wpc, im, ops>>

\* GetAndSet, lines 171-175 and 188-192: the signal, then return newVal.
GetAndSetSignal(p) ==
  /\ pc[p] = "gas_sig"
  /\ quCh' = Signal
  /\ ret' = cur[p]
  /\ pc' = [pc EXCEPT ![p] = "idle"]
  /\ cur' = [cur EXCEPT ![p] = Blank]
  /\ UNCHANGED <<tr, trMu, qu, quMu, wpc, im, ops, last>>

\* Inc(key, x) and Dec(key, x): GetAndSet with their closures.
Inc(p, k, x) == GetAndSet(p, k, [t |-> "inc", x |-> x])
Dec(p, k, x) == GetAndSet(p, k, [t |-> "dec", x |-> x])

\* Flush, lines 50-51: trMu.Lock and a new, empty tree.
Flush(p) ==
  /\ CanCall(p)
  /\ trMu = Free
  /\ ops' = ops + 1
  /\ trMu' = p
  /\ tr' = EmptyMap
  /\ pc' = [pc EXCEPT ![p] = "flush_qu"]
  /\ cur' = [Touch(cur, Keys) EXCEPT ![p] = Call("Flush", "")]
  /\ UNCHANGED <<qu, quMu, quCh, wpc, im, ret, last>>

\* FlushQu without ce.qu = make(map[string]item).
FlushQu_KeepsMap(p) ==
  /\ pc[p] = "flush_qu"
  /\ quMu = Free
  /\ trMu' = Free
  /\ last' = [k \in Keys |-> [Write(last[k], NIL, "Flush") EXCEPT !.ap = last[k].n + 1]]
  /\ ret' = cur[p]
  /\ pc' = [pc EXCEPT ![p] = "idle"]
  /\ cur' = [Touch(cur, Keys) EXCEPT ![p] = Blank]
  /\ UNCHANGED <<tr, qu, quMu, quCh, wpc, im, ops>>

\* Flush, lines 52-55: quMu.Lock with trMu held, then trMu.Unlock, a new,
\* empty map and quMu.Unlock.
FlushQu(p) ==
  /\ pc[p] = "flush_qu"
  /\ quMu = Free
  /\ trMu' = Free
  /\ qu' = EmptyMap
  /\ last' = [k \in Keys |-> [Write(last[k], NIL, "Flush") EXCEPT !.ap = last[k].n + 1]]
  /\ ret' = cur[p]
  /\ pc' = [pc EXCEPT ![p] = "idle"]
  /\ cur' = [Touch(cur, Keys) EXCEPT ![p] = Blank]
  /\ UNCHANGED <<tr, quMu, quCh, wpc, im, ops>>

\* Close, line 60: the send on the unbuffered channel done blocks until
\* the worker receives it.
Close(p) ==
  /\ CanCall(p)
  /\ ops' = ops + 1
  /\ pc' = [pc EXCEPT ![p] = "close"]
  /\ cur' = [cur EXCEPT ![p] = Call("Close", "")]
  /\ UNCHANGED <<tr, trMu, qu, quMu, quCh, wpc, im, ret, last>>

\* -------------------------------------------------------- queueWorker
\* WorkerDone that leaves the select for the drain loop instead of returning.
WorkerDone_Break ==
  /\ wpc = "select"
  /\ \E p \in Procs :
       /\ pc[p] = "close"
       /\ ret' = cur[p]
       /\ pc' = [pc EXCEPT ![p] = "idle"]
       /\ cur' = [cur EXCEPT ![p] = Blank]
  /\ wpc' = "lockQu"
  /\ UNCHANGED <<tr, trMu, qu, quMu, quCh, im, ops, last>>

\* Lines 65-67: the select receives from done, which some Close is sending
\* on, and the worker returns.  Close returns with it.
WorkerDone ==
  /\ wpc = "select"
  /\ \E p \in Procs :
       /\ pc[p] = "close"
       /\ ret' = cur[p]
       /\ pc' = [pc EXCEPT ![p] = "idle"]
       /\ cur' = [cur EXCEPT ![p] = Blank]
  /\ wpc' = "terminated"
  /\ UNCHANGED <<tr, trMu, qu, quMu, quCh, im, ops, last>>

\* Lines 65 and 68: the select receives a signal from quCh.  With both
\* channels ready Go's select takes either.
WorkerWake ==
  /\ wpc = "select"
  /\ quCh > 0
  /\ quCh' = quCh - 1
  /\ wpc' = "lockQu"
  /\ UNCHANGED <<tr, trMu, qu, quMu, im, pc, cur, ret, ops, last>>

\* WorkerPop that copies an entry and leaves it in the buffer.
WorkerPop_NoDelete ==
  /\ wpc = "lockQu"
  /\ quMu = Free
  /\ IF qu = EmptyMap
       THEN /\ wpc' = "select"
            /\ UNCHANGED <<quMu, im>>
       ELSE /\ \E k \in DOMAIN qu :
                 im' = [key |-> k, val |-> qu[k], ver |-> last[k].n]
            /\ quMu' = Worker
            /\ wpc' = "lockTr"
  /\ UNCHANGED <<tr, trMu, qu, quCh, pc, cur, ret, ops, last>>

\* WorkerPop that unlocks quMu as soon as it has taken the entry out.
WorkerPop_Unlocks ==
  /\ wpc = "lockQu"
  /\ quMu = Free
  /\ IF qu = EmptyMap
       THEN /\ wpc' = "select"
            /\ UNCHANGED <<qu, im>>
       ELSE /\ \E k \in DOMAIN qu :
                 /\ im' = [key |-> k, val |-> qu[k], ver |-> last[k].n]
                 /\ qu' = Remove(qu, k)
            /\ wpc' = "lockTr"
  /\ UNCHANGED <<tr, trMu, quMu, quCh, pc, cur, ret, ops, last>>

\* Lines 71-83: quMu.Lock; any one entry is taken out of the map (range
\* over a map starts anywhere); an empty map ends the drain.
WorkerPop ==
  /\ wpc = "lockQu"
  /\ quMu = Free
  /\ IF qu = EmptyMap
       THEN /\ wpc' = "select"
            /\ UNCHANGED <<qu, quMu, im>>
       ELSE /\ \E k \in DOMAIN qu :
                 /\ im' = [key |-> k, val |-> qu[k], ver |-> last[k].n]
                 /\ qu' = Remove(qu, k)
            /\ quMu' = Worker
            /\ wpc' = "lockTr"
  /\ UNCHANGED <<tr, trMu, quCh, pc, cur, ret, ops, last>>

\* Lines 84-85: trMu.Lock with quMu held, then quMu.Unlock.
WorkerLockTr ==
  /\ wpc = "lockTr"
  /\ trMu = Free
  /\ trMu' = Worker
  /\ quMu' = Free
  /\ wpc' = "apply"
  /\ UNCHANGED <<tr, qu, quCh, im, pc, cur, ret, ops, last>>

\* WorkerApply that skips a nil item instead of deleting its key.
WorkerApply_NoDelete ==
  /\ wpc = "apply"
  /\ tr' = IF im.val # NIL THEN Put(tr, im.key, im.val) ELSE tr
  /\ trMu' = Free
  /\ im' = NoItem
  /\ wpc' = "lockQu"
  /\ last' = [last EXCEPT ![im.key].ap = im.ver]
  /\ UNCHANGED <<qu, quMu, quCh, pc, cur, ret, ops>>

\* WorkerApply that goes back to the select after one item instead of
\* draining on.
WorkerApply_Once ==
  /\ wpc = "apply"
  /\ tr' = IF im.val # NIL THEN Put(tr, im.key, im.val) ELSE Remove(tr, im.key)
  /\ trMu' = Free
  /\ im' = NoItem
  /\ wpc' = "select"
  /\ last' = [last EXCEPT ![im.key].ap = im.ver]
  /\ UNCHANGED <<qu, quMu, quCh, pc, cur, ret, ops>>

\* WorkerApply whose Delete empties the index.
WorkerApply_DeleteAll ==
  /\ wpc = "apply"
  /\ tr' = IF im.val # NIL THEN Put(tr, im.key, im.val) ELSE EmptyMap
  /\ trMu' = Free
  /\ im' = NoItem
  /\ wpc' = "lockQu"
  /\ last' = [last EXCEPT ![im.key].ap = im.ver]
  /\ UNCHANGED <<qu, quMu, quCh, pc, cur, ret, ops>>

\* WorkerApply that inserts every item, a nil one too.
WorkerApply_InsertNil ==
  /\ wpc = "apply"
  /\ tr' = Put(tr, im.key, im.val)
  /\ trMu' = Free
  /\ im' = NoItem
  /\ wpc' = "lockQu"
  /\ last' = [last EXCEPT ![im.key].ap = im.ver]
  /\ UNCHANGED <<qu, quMu, quCh, pc, cur, ret, ops>>

\* Lines 86-92: ReplaceOrInsert of a value, Delete for nil; trMu.Unlock and
\* the next round of the drain.
WorkerApply ==
  /\ wpc = "apply"
  /\ tr' = IF im.val # NIL THEN Put(tr, im.key, im.val) ELSE Remove(tr, im.key)
  /\ trMu' = Free
  /\ im' = NoItem
  /\ wpc' = "lockQu"
  /\ last' = [last EXCEPT ![im.key].ap = im.ver]
  /\ UNCHANGED <<qu, quMu, quCh, pc, cur, ret, ops>>

\* ------------------------------------------------------ specifications
CallerStep(p) ==
  \/ GetTr(p)
  \/ SetSignal(p)
  \/ GetOrSetTr(p)
  \/ GetOrSetSignal(p)
  \/ GetAndSetTr(p)
  \/ GetAndSetSignal(p)

WorkerStep ==
  \/ WorkerWake
  \/ WorkerPop
  \/ WorkerLockTr
  \/ WorkerApply

Next ==
  \/ \E p \in Procs, k \in Keys : Get(p, k)
  \/ \E p \in Procs, k \in Keys, v \in SetVals : Set(p, k, v)
  \/ \E p \in Procs, k \in Keys : Del(p, k)
  \/ \E p \in Procs, k \in Keys : GetOrSet(p, k, IntV(p))
  \/ \E p \in Procs, k \in Keys : GetAndSet(p, k, ConstF)
  \/ \E p \in Procs, k \in Keys, x \in IncDeltas : Inc(p, k, x)
  \/ \E p \in Procs, k \in Keys, x \in DecDeltas : Dec(p, k, x)
  \/ \E p \in Procs : Flush(p)
  \/ \E p \in Procs : FlushQu(p)
  \/ \E p \in Procs : Close(p)
  \/ \E p \in Procs : CallerStep(p)
  \/ WorkerDone
  \/ WorkerStep

Spec == Init /\ [][Next]_vars

\* The cache in use and never flushed or closed: the callers' calls but
\* Flush and Close, with every goroutine scheduled again and again.  A
\* goroutine that can take its next step (its lock is free) takes it.
NextLive ==
  \/ \E p \in Procs, k \in Keys : Get(p, k)
  \/ \E p \in Procs, k \in Keys, v \in SetVals : Set(p, k, v)
  \/ \E p \in Procs, k \in Keys : Del(p, k)
  \/ \E p \in Procs, k \in Keys : GetOrSet(p, k, IntV(p))
  \/ \E p \in Procs, k \in Keys : GetAndSet(p, k, ConstF)
  \/ \E p \in Procs, k \in Keys, x \in IncDeltas : Inc(p, k, x)
  \/ \E p \in Procs, k \in Keys, x \in DecDeltas : Dec(p, k, x)
  \/ \E p \in Procs : CallerStep(p)
  \/ WorkerStep

Fairness == WF_vars(WorkerStep) /\ \A p \in Procs : WF_vars(CallerStep(p))

LiveSpec == Init /\ [][NextLive]_vars /\ Fairness

\* The callers go on calling: the count of calls starts again, and with it
\* the history of the keys, which no action of the program reads.
KeepCalling ==
  /\ ops = MaxOps
  /\ ops' = 0
  /\ last' = [k \in Keys |-> NoWrite]
  /\ UNCHANGED <<tr, trMu, qu, quMu, quCh, wpc, im, pc, cur, ret>>

\* The cache under writers that never stop, and a Close: Set after Set of
\* one value to any key, with the worker merging, until the worker receives
\* from done.
NextShutdown ==
  \/ \E p \in Procs, k \in Keys : Set(p, k, IntV(10))
  \/ \E p \in Procs : SetSignal(p)
  \/ \E p \in Procs : Close(p)
  \/ KeepCalling
  \/ WorkerDone
  \/ WorkerStep

\* Every goroutine is scheduled again and again, and a select that finds
\* done ready again and again takes it in the end (Go's select chooses among
\* its ready cases at random).
FairShutdown ==
  /\ WF_vars(WorkerStep)
  /\ SF_vars(WorkerDone)
  /\ \A p \in Procs : WF_vars(SetSignal(p))

ShutdownSpec == Init /\ [][NextShutdown]_vars /\ FairShutdown

TypeOK ==
  /\ DOMAIN tr \subseteq Keys
  /\ DOMAIN qu \subseteq Keys
  /\ quCh \in 0..QuChCap
  /\ ops \in 0..MaxOps
  /\ trMu \in Procs \cup {Worker, Free}
  /\ quMu \in Procs \cup {Worker, Free}

\* ------------------------------------------------------------- claims
\* Where the worker holds an entry it has taken out of the buffer and has
\* not yet applied to the index.
Popped == wpc \in {"lockTr", "apply"}

\* C1. Read-your-write: a Get of k that starts after a Set(k, v), v not nil,
\* has stored v, and that no write to k and no Flush overlaps or comes
\* between, returns v, wherever the entry is: in the buffer, popped and not
\* yet applied, or merged.
C1_ReadYourWrite ==
  (ret.op = "Get" /\ ret.clean /\ ret.exp.by \in {"Set", "init"}) => ret.val = ret.exp.val

\* A Get has missed k in the buffer while the worker holds k's entry,
\* popped and not yet applied, under trMu.
C1_Witness ==
  \E p \in Procs :
    /\ pc[p] = "get_tr" /\ cur[p].clean /\ cur[p].exp.by = "Set"
    /\ wpc = "apply" /\ im.key = cur[p].key /\ im.val = cur[p].exp.val

\* C2. Delete visibility: a Get of k that starts after a Del(k), with no
\* write to k and no Flush overlapping or in between, returns nil, whether
\* the tombstone is in the buffer, popped, or merged.
C2_DeleteVisible ==
  (ret.op = "Get" /\ ret.clean /\ ret.exp.by = "Del") => ret.val = NIL

\* A Get returned nil from the index for a key that held a value before its
\* Del, and the Set before it was made in this run.
C2_Witness ==
  /\ ret.op = "Get" /\ ret.clean /\ ret.exp.by = "Del" /\ ret.exp.prev = IntV(10)
  /\ ret.src = "tr" /\ ret.val = NIL

\* C3. GetOrSet atomicity: of the GetOrSet calls on a key that was never
\* written, the first to take effect returns found = false with its own
\* value; no GetOrSet returns found = false right after another GetOrSet
\* stored (so one call wins); and a GetOrSet that returns found = true after
\* a GetOrSet stored returns the winner's value.
C3_GetOrSetAtomic ==
  ret.op = "GetOrSet" =>
    /\ ret.exp.by = "none" => (~ret.found /\ ret.val = ret.arg)
    /\ ~ret.found => ret.exp.by # "GetOrSet"
    /\ (ret.found /\ ret.exp.by = "GetOrSet") => ret.val = ret.exp.val

\* A GetOrSet lost to another caller's: it found the winner's value, which
\* the worker had already merged into the index.
C3_Witness ==
  /\ ret.op = "GetOrSet" /\ ret.found /\ ret.exp.by = "GetOrSet" /\ ret.exp.prev = NIL
  /\ ret.src = "tr" /\ ret.val # ret.arg /\ ret.val = ret.exp.val

LockCycle ==
  \E p \in Procs :
    /\ pc[p] = "flush_qu" /\ trMu = p
    /\ \/ quMu = Worker /\ wpc = "lockTr"
       \/ \E q \in Procs : quMu = q /\ pc[q] \in {"gos_tr", "gas_tr"}

\* C5. Flush never deadlocks: no state has a Flush and the worker (or a
\* GetOrSet or GetAndSet caller) waiting for each other's lock.
C5_FlushNeverDeadlocks == ~LockCycle

\* C6. Flush clears both tiers: while Flush is the last write to k, k is in
\* neither the buffer nor the index and the worker holds no entry for it,
\* and a Get of k that no write overlaps returns nil.
C6_FlushClears ==
  /\ \A k \in Keys :
       last[k].by = "Flush" => (k \notin DOMAIN qu /\ k \notin DOMAIN tr /\ im.key # k)
  /\ (ret.op = "Get" /\ ret.clean /\ ret.exp.by = "Flush") => ret.val = NIL

\* A Get returned nil for a key that held a value before the Flush.
C6_Witness ==
  /\ ret.op = "Get" /\ ret.clean /\ ret.exp.by = "Flush" /\ ret.exp.prev # NIL
  /\ ret.val = NIL

\* C8. GetOrSet decides on the logical value: found = true, the value
\* returned and nothing stored exactly when the key holds a value; else
\* newVal stored and (newVal, false) returned.
C8_GetOrSetLogical ==
  ret.op = "GetOrSet" =>
    /\ ret.found <=> ret.exp.val # NIL
    /\ ret.found => (ret.val = ret.exp.val /\ ~ret.stored)
    /\ ~ret.found => (ret.val = ret.arg /\ ret.stored)

\* C9. GetAndSet on a key that holds no value stores nothing, sends no
\* signal and returns nil.
C9_GetAndSetAbsentNoop ==
  (ret.op = "GetAndSet" /\ ret.exp.val = NIL) => (~ret.stored /\ ret.val = NIL)

\* C10 as claimed. Inc(k, d) on a key whose value is an integer v returns
\* v + d, and Dec(k, d) returns v - d.
C10_IncDecAnyInteger ==
  (ret.op = "GetAndSet" /\ ret.exp.val.kind \in {"int", "int64", "int32"}) =>
    /\ ret.f.t = "inc" => ret.val.n = ret.exp.val.n + ret.f.x
    /\ ret.f.t = "dec" => ret.val.n = ret.exp.val.n - ret.f.x

\* C10 as amended. On a key whose value is an int or int64 v, Inc(k, d)
\* stores and returns v + d and Dec(k, d) v - d, of the same type and in
\* wrap-around arithmetic, whether v was in the buffer or in the index; and
\* a Get that no write overlaps returns the value so stored.
C10_IncDec ==
  /\ (ret.op = "GetAndSet" /\ ret.exp.val.kind \in {"int", "int64"}) =>
       /\ ret.f.t = "inc" =>
            (ret.stored /\ ret.val = [kind |-> ret.exp.val.kind, n |-> Wrap(ret.exp.val.n + ret.f.x)])
       /\ ret.f.t = "dec" =>
            (ret.stored /\ ret.val = [kind |-> ret.exp.val.kind, n |-> Wrap(ret.exp.val.n - ret.f.x)])
  /\ (ret.op = "Get" /\ ret.clean /\ ret.exp.by = "GetAndSet") => ret.val = ret.exp.val

\* Set(k, 10), Inc(k, 5) = 15, then Dec(k, 3) = 12.
C10_Witness ==
  /\ ret.op = "GetAndSet" /\ ret.f.t = "dec" /\ ret.exp.by = "GetAndSet"
  /\ ret.exp.val = IntV(15) /\ ret.val = IntV(12)

\* Every mutation is merged: the buffer is empty, the worker is back in its
\* select, and the index holds, for every key, the value last written to it
\* (no entry for a key last deleted).
Merged ==
  /\ qu = EmptyMap
  /\ wpc = "select"
  /\ \A k \in Keys : TreeGet(tr, k) = last[k].val /\ (last[k].val = NIL => k \notin DOMAIN tr)

\* C7. Eventual consistency with the index: with no Flush and no Close,
\* once the callers write no more, the worker empties the buffer, and the
\* index then holds every key's last written value for good.
C7_EventuallyMerged == <>[]Merged

\* A value Set in this run has been merged and the buffer is empty.
C7_Witness ==
  /\ Merged
  /\ \E k \in Keys : last[k].by = "Set" /\ k \in DOMAIN tr /\ tr[k] = last[k].val

\* C11. Inc/Dec type guard: Inc(k, d) and Dec(k, d) on a key whose value is
\* a string return that string, and a Get of k that follows, with no other
\* write to k and no Flush overlapping or in between, returns it too, from
\* the buffer or, after the drain, from the index.
C11_TypeGuard ==
  /\ (ret.op = "GetAndSet" /\ ret.f.t \in {"inc", "dec"} /\ ret.exp.val.kind = "string") =>
       ret.val = ret.exp.val
  /\ (ret.op = "Get" /\ ret.clean /\ ret.exp.by = "GetAndSet"
        /\ ret.exp.prev.kind = "string" /\ ret.exp.val.kind = "string") =>
       ret.val = ret.exp.prev

\* A Get has read from the index the string an Inc or Dec left in place.
C11_Witness ==
  /\ ret.op = "Get" /\ ret.clean /\ ret.src = "tr"
  /\ ret.exp.by = "GetAndSet" /\ ret.exp.prev = Text /\ ret.val = Text

\* The value an Inc or Dec in progress handed to its closure is not one the
\* type switch recognizes.
NonInteger(c) ==
  c.op = "GetAndSet" /\ c.f.t \in {"inc", "dec"} /\ c.arg.kind \notin {"int", "int64"}

\* C12 as stated. Inc(k, d) and Dec(k, d) on a value that is no int and no
\* int64, absent included, leave the buffer exactly as it was and send no
\* signal.
C12_NoMutationRecorded ==
  [][\A p \in Procs :
       /\ (pc[p] # "gas_sig" /\ pc'[p] = "gas_sig" /\ NonInteger(cur'[p])) => qu' = qu
       /\ (pc[p] = "gas_sig" /\ pc'[p] = "idle" /\ NonInteger(cur[p])) => quCh' = quCh
       /\ (pc[p] = "gas_tr" /\ pc'[p] = "idle" /\ NonInteger(cur[p])) =>
            (qu' = qu /\ quCh' = quCh)]_vars

\* C12, amended. Inc(k, d) and Dec(k, d) on a value x that is no int and no
\* int64 return x and leave k's logical value x; when k has an entry in the
\* buffer or in the index they store x as k's buffer entry (rewriting the
\* entry, or creating it when k was only in the index) and send the
\* non-blocking signal; only when k is in neither do they leave the buffer
\* as it was and send no signal.
C12_IncDecFrame ==
  [][\A p \in Procs :
       /\ (pc[p] # "gas_sig" /\ pc'[p] = "gas_sig" /\ NonInteger(cur'[p])) =>
            /\ cur'[p].val = cur'[p].arg
            /\ cur'[p].arg = (IF cur'[p].key \in DOMAIN qu THEN qu[cur'[p].key]
                                                           ELSE tr[cur'[p].key])
            /\ qu' = Put(qu, cur'[p].key, cur'[p].arg)
            /\ tr' = tr
       /\ (pc[p] = "gas_sig" /\ pc'[p] = "idle" /\ NonInteger(cur[p])) =>
            /\ quCh' = (IF quCh < QuChCap THEN quCh + 1 ELSE quCh)
            /\ ret'.val = cur[p].arg
            /\ qu' = qu
       /\ (pc[p] = "gas_tr" /\ pc'[p] = "idle" /\ cur[p].f.t \in {"inc", "dec"}) =>
            /\ cur[p].key \notin DOMAIN qu /\ cur[p].key \notin DOMAIN tr
            /\ ret'.val = NIL
            /\ qu' = qu /\ quCh' = quCh /\ tr' = tr]_vars

\* An Inc has found a string in the index alone, has created the buffer
\* entry for it, and is about to signal the worker.
C12_Witness ==
  \E p \in Procs :
    /\ pc[p] = "gas_sig" /\ cur[p].f.t = "inc" /\ cur[p].src = "tr"
    /\ cur[p].arg = Text /\ qu[cur[p].key] = Text /\ quCh < QuChCap

\* C13. Idempotent delete: after a Del(k) of a key that was absent (never
\* written, or deleted before), a Get of k that no write overlaps returns
\* absent; once the tombstone is drained the index has no entry for k; and
\* the step that applies a tombstone leaves every other key of the index as
\* it was.
C13_IdempotentDelete ==
  /\ [](/\ (ret.op = "Get" /\ ret.clean /\ ret.exp.by = "Del" /\ ret.exp.prev = NIL) =>
            ret.val = NIL
        /\ \A k \in Keys :
             (last[k].by = "Del" /\ k \notin DOMAIN qu /\ ~(Popped /\ im.key = k)) =>
               k \notin DOMAIN tr)
  /\ [][(wpc = "apply" /\ wpc' # "apply" /\ im.val = NIL) =>
          /\ im.key \notin DOMAIN tr'
          /\ \A j \in Keys \ {im.key} : TreeGet(tr', j) = TreeGet(tr, j)]_vars

\* A second Del of a key never written before has been drained, and a Get
\* has then read the index.
C13_Witness ==
  /\ ret.op = "Get" /\ ret.clean /\ ret.src = "tr" /\ ret.val = NIL
  /\ ret.exp.by = "Del" /\ ret.exp.prev = NIL /\ ret.exp.n = 2
  /\ last[ret.key] = ret.exp

\* C15. No draining after Close: Close returns in the step in which the
\* worker, waiting in its select with no item in hand, receives from done
\* and returns; from then on the worker stays terminated, only a Flush
\* changes the index or removes a buffer entry, and every write the index
\* does not reflect is in the buffer, where a Get finds it.
C15_NoDrainAfterClose ==
  /\ [](/\ ret.op = "Close" => wpc = "terminated"
        /\ wpc = "terminated" =>
             /\ im = NoItem /\ quMu # Worker /\ trMu # Worker
             /\ \A k \in Keys :
                  last[k].n > last[k].ap => (k \in DOMAIN qu /\ qu[k] = last[k].val)
        /\ (ret.op = "Get" /\ ret.late /\ ret.clean) =>
             /\ ret.val = ret.exp.val
             /\ ret.exp.n > ret.exp.ap => ret.src = "qu")
  /\ [][/\ (\E p \in Procs : pc[p] = "close" /\ pc'[p] = "idle") =>
            (wpc = "select" /\ im = NoItem /\ wpc' = "terminated")
        /\ wpc = "terminated" =>
             /\ wpc' = "terminated"
             /\ tr' = tr \/ (tr' = EmptyMap /\ \E p \in Procs : pc'[p] = "flush_qu")
             /\ (\A k \in DOMAIN qu : k \in DOMAIN qu')
                  \/ (qu' = EmptyMap /\ \E p \in Procs : pc[p] = "flush_qu")]_vars

\* A Set called after the worker returned has come back: its value is in
\* the buffer, its signal in the channel, and the index is as it was.
C15_Witness ==
  /\ wpc = "terminated" /\ ret.op = "Set" /\ ret.late /\ ret.arg # NIL
  /\ ret.key \in DOMAIN qu /\ qu[ret.key] = ret.arg
  /\ quCh = QuChCap /\ ret.key \notin DOMAIN tr

\* What the two tiers hold for k: the buffer's entry, else the index's.
TierVal(k) == IF k \in DOMAIN qu THEN qu[k] ELSE TreeGet(tr, k)

\* The same with the item in the worker's hands between the two.
LogicalVal(k) ==
  IF k \in DOMAIN qu THEN qu[k]
  ELSE IF Popped /\ im.key = k THEN im.val
  ELSE TreeGet(tr, k)

MidSignal == \E p \in Procs : pc[p] \in {"set_sig", "gos_sig", "gas_sig"}

\* C17. No stranded mutation: whenever the buffer is not empty, the worker
\* waits in its select and no writer is between its store and its signal,
\* a signal is pending in quCh; and a writer's signal is dropped only when
\* quCh is full.
C17_NoStrandedMutation ==
  /\ []((wpc = "select" /\ qu # EmptyMap /\ ~MidSignal) => quCh >= 1)
  /\ [][\A p \in Procs :
         (pc[p] \in {"set_sig", "gos_sig", "gas_sig"} /\ pc'[p] = "idle") =>
           (quCh' = quCh + 1 \/ (quCh' = quCh /\ quCh = QuChCap))]_vars

\* Two writes have been buffered with the worker idle: the first signal
\* fills quCh and the second is dropped.
C17_Witness ==
  /\ wpc = "select" /\ ~MidSignal /\ quCh = QuChCap
  /\ DOMAIN qu = Keys /\ ops = 2 /\ ret.stored
  /\ \A k \in Keys : last[k].ap < last[k].n

\* C18. Apply rule and tombstone-free index: a drain step takes exactly
\* one entry out of the buffer into the worker's hands and then applies it
\* to the index, deleting the key for a nil value (changing nothing when
\* the index has no such key) and inserting or replacing otherwise, after
\* which the worker's hands are empty; nothing but this step and Flush
\* changes the index; and no key of the index maps to nil.
C18_ApplyRule ==
  /\ [](\A k \in DOMAIN tr : tr[k] # NIL)
  /\ [][/\ (wpc = "lockQu" /\ wpc' = "lockTr") =>
            /\ im = NoItem
            /\ \E k \in DOMAIN qu :
                 qu' = Remove(qu, k) /\ im'.key = k /\ im'.val = qu[k]
        /\ (wpc = "apply" /\ wpc' # "apply") =>
            /\ tr' = (IF im.val = NIL THEN Remove(tr, im.key)
                                      ELSE Put(tr, im.key, im.val))
            /\ (im.val = NIL /\ im.key \notin DOMAIN tr) => tr' = tr
            /\ im' = NoItem /\ qu' = qu
        /\ tr' # tr =>
             \/ wpc = "apply" /\ wpc' # "apply"
             \/ tr' = EmptyMap /\ \E p \in Procs : pc'[p] = "flush_qu"]_vars

\* The worker has applied the tombstone of a key the index held: the key is
\* gone from the index, and the worker is back at the head of its drain loop.
C18_Witness ==
  /\ wpc = "lockQu" /\ im = NoItem
  /\ \E k \in Keys :
       /\ last[k].by = "Del" /\ last[k].prev # NIL /\ last[k].ap = last[k].n
       /\ k \notin DOMAIN tr /\ k \notin DOMAIN qu

\* C19. The index never regresses for a key.  With k's writes numbered in
\* the order of their stores, the entry the worker pops is k's latest write,
\* it is a later write than the one the index reflects, and applying it
\* makes it the one the index reflects: the writes applied to the index for
\* k are a strictly increasing selection of k's writes, also when writes
\* to k are coalesced in the buffer or stored while k's entry is in the
\* worker's hands.  An index that reflects k's latest write holds its value.
C19_NoRegress ==
  /\ [](/\ \A k \in Keys : last[k].ap <= last[k].n
        /\ Popped => (last[im.key].ap < im.ver /\ im.ver <= last[im.key].n)
        /\ ~FlushInFlight =>
             \A k \in Keys : last[k].ap = last[k].n => TreeGet(tr, k) = last[k].val)
  /\ [][/\ \A k \in Keys : last[k].ap <= last'[k].ap /\ last[k].n <= last'[k].n
        /\ (wpc = "lockQu" /\ wpc' = "lockTr") =>
             (im'.ver = last[im'.key].n /\ im'.val = last[im'.key].val)
        /\ (wpc = "apply" /\ wpc' # "apply") =>
             /\ last'[im.key].ap = im.ver
             /\ TreeGet(tr', im.key) = im.val
             /\ \A k \in Keys \ {im.key} : last'[k].ap = last[k].ap]_vars

\* The worker has applied a write to k while two later writes to k were
\* stored: the index has the older value, the buffer the latest.
C19_Witness ==
  /\ wpc = "lockQu"
  /\ \E k \in DOMAIN qu \cap DOMAIN tr :
       /\ last[k].n = last[k].ap + 2
       /\ tr[k] \in SetVals /\ qu[k] # tr[k] /\ qu[k] = last[k].val

\* C20. Deadlock freedom without Flush and Close: whoever holds quMu
\* between two steps is the worker or a GetOrSet or GetAndSet about to take
\* trMu (buffer, then index); whoever holds trMu is the worker applying its
\* item, which waits for no lock; so no goroutine that holds one lock waits
\* for a goroutine that waits for it.  With every goroutine scheduled again
\* and again, every call returns and every lock is released: the calls of
\* a behaviour being finitely many, from some state on no call is in
\* progress and no lock is held.
C20_DeadlockFree ==
  /\ [](/\ trMu # Free => (trMu = Worker /\ wpc = "apply")
        /\ quMu # Free =>
             \/ quMu = Worker /\ wpc = "lockTr"
             \/ quMu \in Procs /\ pc[quMu] \in {"gos_tr", "gas_tr"}
        /\ ~(quMu # Free /\ trMu # Free /\ quMu # trMu /\ wpc # "apply"))
  /\ <>[](quMu = Free /\ trMu = Free /\ \A p \in Procs : pc[p] = "idle")

\* A GetOrSet or GetAndSet holds quMu and waits for trMu, which the worker
\* holds, while another caller's Get waits for trMu too.
C20_Witness ==
  \E p, q \in Procs :
    /\ pc[p] \in {"gos_tr", "gas_tr"} /\ quMu = p
    /\ trMu = Worker /\ wpc = "apply"
    /\ pc[q] = "get_tr"

\* C14. Shutdown is not starved: once a Close is waiting to hand over its
\* shutdown signal, the worker terminates, also under writers that never
\* stop calling Set.
C14_ShutdownNotStarved ==
  (\E p \in Procs : pc[p] = "close") ~> (wpc = "terminated")
====
